---- MODULE Spec2Model ----
(***************************************************************************)
(* TEF II bridge: the serial transaction coordinator (SerialManager) and   *)
(* the frame codec (TEFProtocol) of src/lib/SerialManager.js.              *)
(*                                                                         *)
(* Buffers are sequences of bytes (0..255).  The source indexes buffers    *)
(* from 0; the helpers At, IndexOf and Subarray keep that convention so    *)
(* that the arithmetic of the handlers reads as in the source.             *)
(***************************************************************************)
EXTENDS Integers, Sequences, FiniteSets, TLC

(***************************************************************************)
(* Bounds of the model.                                                    *)
(***************************************************************************)
\* number of sendAndReceive calls issued in one behaviour
MaxCalls == 2
\* bytes of an unfinished frame a delivery may leave in responseBuffer
MaxStale == 2
\* bytes of garbage before and after the frame of the reassembly scenario
MaxGarbage == 1
\* bytes between STX and the last byte of the frame of that scenario
MaxBody == 3
\* characters of the response code of the response scenario
MaxCode == 2

\* characters of the terminalId of a purchase
MaxId == 1

\* bytes of an input of the validation scenario
MaxFrame == 5

(***************************************************************************)
(* Control characters (TEFProtocol, lines 727-731).                        *)
(***************************************************************************)
STX == 2
ETX == 3
SEPARATOR == 28
ACK == 6
NACK == 21

(***************************************************************************)
(* Buffer helpers (Node Buffer semantics).                                 *)
(***************************************************************************)
At(buf, i) == buf[i + 1]

Min(a, b) == IF a < b THEN a ELSE b

Max(a, b) == IF a > b THEN a ELSE b

\* Buffer.subarray(start, end): both ends are clamped to the buffer
Subarray(buf, start, end) ==
    LET s == Min(Max(start, 0), Len(buf))
        e == Min(Max(end, s), Len(buf))
    IN  SubSeq(buf, s + 1, e)

\* Buffer.subarray(start)
SubarrayFrom(buf, start) == Subarray(buf, start, Len(buf))

\* Buffer.indexOf(byte, from): the first index >= from holding byte, or -1
IndexOf(buf, byte, from) ==
    LET hits == {i \in Max(from, 0)..(Len(buf) - 1) : At(buf, i) = byte}
    IN  IF hits = {} THEN -1
        ELSE CHOOSE i \in hits : \A j \in hits : i <= j

\* the bitwise exclusive or of two naturals, bit by bit
RECURSIVE XorBits(_, _)
XorBits(a, b) ==
    IF a = 0 THEN b
    ELSE IF b = 0 THEN a
    ELSE (((a % 2) + (b % 2)) % 2) + (2 * XorBits(a \div 2, b \div 2))

\* the same, tabulated once for all pairs of bytes
XorTable == [a \in 0..255 |-> [b \in 0..255 |-> XorBits(a, b)]]

\* the ^ of calculateLRC, on bytes
BitXor(a, b) == XorTable[a][b]

\* TEFProtocol.calculateLRC: XOR of every byte of the buffer, from 0.  The
\* loop of the source is folded by halves (^ is associative), which keeps
\* the evaluation of a 150-byte frame shallow.
RECURSIVE calculateLRC(_)
calculateLRC(buffer) ==
    IF buffer = << >> THEN 0
    ELSE IF Len(buffer) = 1 THEN BitXor(0, buffer[1])
    ELSE LET half == Len(buffer) \div 2
         IN  BitXor(calculateLRC(SubSeq(buffer, 1, half)),
                    calculateLRC(SubSeq(buffer, half + 1, Len(buffer))))

(***************************************************************************)
(* TEFProtocol.validateFrame (lines 1110-1141).                            *)
(***************************************************************************)
validateFrame(frame) ==
    IF Len(frame) < 5
    THEN [valid |-> FALSE, error |-> "Trama demasiado corta",
          expected |-> -1, received |-> -1]
    ELSE IF At(frame, 0) # STX
    THEN [valid |-> FALSE, error |-> "STX no encontrado",
          expected |-> -1, received |-> -1]
    ELSE LET etxIndex == IndexOf(frame, ETX, 0) IN
         IF etxIndex = -1
         THEN [valid |-> FALSE, error |-> "ETX no encontrado",
               expected |-> -1, received |-> -1]
         ELSE LET messageWithoutSTX == Subarray(frame, 1, etxIndex + 1)
                  expectedLRC == calculateLRC(messageWithoutSTX)
                  receivedLRC == At(frame, Len(frame) - 1)
              IN  IF expectedLRC # receivedLRC
                  THEN [valid |-> FALSE, error |-> "LRC invalido",
                        expected |-> expectedLRC, received |-> receivedLRC]
                  ELSE [valid |-> TRUE, error |-> "",
                        expected |-> expectedLRC, received |-> receivedLRC]

(***************************************************************************)
(* TEFProtocol.parseResponse (lines 946-1018) and                          *)
(* validateParsedTransaction (lines 1024-1058).  Text is kept as the       *)
(* sequence of its character codes; the keys of result.fields are the two  *)
(* field-type bytes (the source prints them as four hex digits).           *)
(***************************************************************************)
\* the characters String.prototype.trim removes, among the ASCII codes
Whitespace == {9, 10, 11, 12, 13, 32}

RECURSIVE TrimStart(_)
TrimStart(str) ==
    IF str # << >> /\ Head(str) \in Whitespace THEN TrimStart(Tail(str))
    ELSE str

RECURSIVE TrimEnd(_)
TrimEnd(str) ==
    IF str # << >> /\ str[Len(str)] \in Whitespace
    THEN TrimEnd(SubSeq(str, 1, Len(str) - 1))
    ELSE str

\* value.toString("ascii").trim(): the high bit of each byte is dropped
AsciiTrim(value) ==
    TrimEnd(TrimStart([i \in 1..Len(value) |-> value[i] % 128]))

\* the while loop of parseResponse, from `position` on; yields result.fields
RECURSIVE ParseFields(_, _, _)
ParseFields(responseBuffer, position, fields) ==
    IF position >= Len(responseBuffer) THEN fields
    ELSE IF At(responseBuffer, position) # SEPARATOR
    THEN ParseFields(responseBuffer, position + 1, fields)
    ELSE LET p1 == position + 1 IN
         IF ~(p1 + 2 <= Len(responseBuffer))
         THEN ParseFields(responseBuffer, p1, fields)
         ELSE LET fieldType == Subarray(responseBuffer, p1, p1 + 2)
                  p2 == p1 + 2
              IN
              IF ~(p2 + 2 <= Len(responseBuffer))
              THEN ParseFields(responseBuffer, p2, fields)
              ELSE LET lengthBytes == Subarray(responseBuffer, p2, p2 + 2)
                       length == 256 * lengthBytes[1] + lengthBytes[2]
                       p3 == p2 + 2
                   IN
                   IF ~(p3 + length <= Len(responseBuffer))
                   THEN ParseFields(responseBuffer, p3, fields)
                   ELSE LET value == Subarray(responseBuffer, p3, p3 + length)
                            field == [raw |-> value,
                                      ascii |-> AsciiTrim(value),
                                      length |-> length]
                        IN  ParseFields(responseBuffer, p3 + length,
                                        (fieldType :> field) @@ fields)

\* the reply of a declined transaction; errorCode is << >> when undefined
Declined(errorCode) ==
    [success |-> FALSE, status |-> "DECLINED", message |-> "Pago rechazado",
     errorCode |-> errorCode, transactionData |-> << >>]

\* result?.fields?.[key]?.ascii || ""
AsciiOr(fields, key) ==
    IF key \in DOMAIN fields THEN fields[key].ascii ELSE << >>

\* a validateParsedTransaction that declines only on a code other than "00"
validateParsedTransactionLenient(result) ==
    LET has48 == <<52, 56>> \in DOMAIN result.fields
        responseCode == IF has48 THEN result.fields[<<52, 56>>].ascii ELSE << >>
        isApproved == ~has48 \/ responseCode = <<48, 48>>
    IN  IF ~isApproved
        THEN Declined(IF has48 THEN <<responseCode>> ELSE << >>)
        ELSE [success |-> TRUE, status |-> "APPROVED",
              message |-> "Transaccion aprobada",
              errorCode |-> << >>,
              transactionData |-> <<
                 [amount |-> AsciiOr(result.fields, <<52, 48>>),
                  authorizationCode |-> AsciiOr(result.fields, <<52, 53>>),
                  date |-> AsciiOr(result.fields, <<52, 54>>),
                  time |-> AsciiOr(result.fields, <<52, 55>>),
                  franchise |-> AsciiOr(result.fields, <<52, 57>>),
                  accountType |-> AsciiOr(result.fields, <<53, 48>>),
                  last4 |-> AsciiOr(result.fields, <<53, 52>>),
                  quotas |-> AsciiOr(result.fields, <<53, 49>>),
                  responseCode |-> responseCode] >>]

\* TEFProtocol.validateParsedTransaction (lines 1024-1058)
validateParsedTransaction(result) ==
    LET has48 == <<52, 56>> \in DOMAIN result.fields
        responseCode == IF has48 THEN result.fields[<<52, 56>>].ascii ELSE << >>
        isApproved == has48 /\ responseCode = <<48, 48>>
    IN  IF ~isApproved
        THEN Declined(IF has48 THEN <<responseCode>> ELSE << >>)
        ELSE [success |-> TRUE, status |-> "APPROVED",
              message |-> "Transaccion aprobada",
              errorCode |-> << >>,
              transactionData |-> <<
                 [amount |-> AsciiOr(result.fields, <<52, 48>>),
                  authorizationCode |-> AsciiOr(result.fields, <<52, 53>>),
                  date |-> AsciiOr(result.fields, <<52, 54>>),
                  time |-> AsciiOr(result.fields, <<52, 55>>),
                  franchise |-> AsciiOr(result.fields, <<52, 57>>),
                  accountType |-> AsciiOr(result.fields, <<53, 48>>),
                  last4 |-> AsciiOr(result.fields, <<53, 52>>),
                  quotas |-> AsciiOr(result.fields, <<53, 49>>),
                  responseCode |-> responseCode] >>]

parseResponse(responseBuffer) ==
    IF Len(responseBuffer) = 0 THEN Declined(<< >>)
    ELSE validateParsedTransaction(
             [raw |-> responseBuffer,
              fields |-> ParseFields(responseBuffer, 0, << >>),
              success |-> FALSE,
              message |-> ""])

\* the two characters of a response code
Code(tens, units) == <<48 + tens, 48 + units>>

\* the dictionary of getResponseMessage (lines 1064-1102)
messages ==
    (Code(0, 0) :> "Transaccion Aprobada") @@
    (Code(0, 1) :> "Contactar entidad") @@
    (Code(0, 2) :> "Contactar entidad") @@
    (Code(0, 3) :> "Comercio no registrado") @@
    (Code(0, 4) :> "Retener tarjeta") @@
    (Code(0, 5) :> "No honrar") @@
    (Code(0, 6) :> "Error") @@
    (Code(0, 7) :> "Retener tarjeta") @@
    (Code(1, 2) :> "Transaccion invalida") @@
    (Code(1, 3) :> "Monto invalido") @@
    (Code(1, 4) :> "Tarjeta invalida") @@
    (Code(1, 5) :> "Entidad no valida") @@
    (Code(1, 9) :> "Reintentar") @@
    (Code(3, 0) :> "Error de formato") @@
    (Code(4, 1) :> "Tarjeta perdida") @@
    (Code(4, 3) :> "Tarjeta robada") @@
    (Code(5, 1) :> "Fondos insuficientes") @@
    (Code(5, 4) :> "Tarjeta vencida") @@
    (Code(5, 5) :> "PIN incorrecto") @@
    (Code(5, 7) :> "Transaccion no permitida") @@
    (Code(5, 8) :> "Transaccion no permitida") @@
    (Code(5, 9) :> "Sospecha de fraude") @@
    (Code(6, 1) :> "Excede limite") @@
    (Code(6, 2) :> "Tarjeta restringida") @@
    (Code(6, 3) :> "Violacion de seguridad") @@
    (Code(6, 5) :> "Excede limite") @@
    (Code(7, 5) :> "Excede intentos PIN") @@
    (Code(7, 6) :> "No se encuentra original") @@
    (Code(7, 7) :> "No coincide monto") @@
    (Code(7, 8) :> "Cuenta no existe") @@
    (Code(8, 5) :> "No hay razon para declinar") @@
    (Code(9, 1) :> "Entidad no responde") @@
    (Code(9, 2) :> "Destino no encontrado") @@
    (Code(9, 3) :> "Transaccion no puede completarse") @@
    (Code(9, 4) :> "Duplicada") @@
    (Code(9, 6) :> "Error sistema") @@
    (Code(9, 9) :> "Problemas de comunicacion")

\* a message: a fixed text, and the characters appended to it
Message(text, suffix) == [text |-> text, suffix |-> suffix]

\* TEFProtocol.getResponseMessage (lines 1063-1105); the message for a code
\* outside the dictionary is the fixed text followed by the code
getResponseMessage(code) ==
    IF code \in DOMAIN messages THEN Message(messages[code], << >>)
    ELSE Message("Codigo desconocido: ", code)

(***************************************************************************)
(* SerialManager (lines 9-317).                                            *)
(*                                                                         *)
(* State of the object: isConnected, port, pendingResolves and             *)
(* responseBuffer.  pendingResolves is a Map: its entries are kept in      *)
(* insertion order as records [id, call], where id is the key              *)
(* Date.now().toString() and call identifies the resolve, reject and       *)
(* timeoutId closures of the sendAndReceive call that stored the entry.    *)
(*                                                                         *)
(* State of the runtime around it: the promise of every call (result),     *)
(* the armed setTimeout timers, the millisecond clock, whether an opened   *)
(* port object with the manager's handlers exists (listening), what the    *)
(* last step handed to port.write (wire), and the last step taken (last).  *)
(* terminal is the far end of the line in the reassembly scenario: the     *)
(* frame it answers with, the bytes it has put on the line that the port   *)
(* has not delivered yet (rest), how many it has delivered (sent), the     *)
(* bytes it sends in front of the frame (before) and their number (lead).  *)
(* In the exchange scenario terminal holds the answers that are on their   *)
(* way to the port (answers).                                              *)
(* request is the transactionData object of the purchase scenario.         *)
(***************************************************************************)
VARIABLES isConnected, port, pendingResolves, responseBuffer,
          listening, now, calls, result, timers, wire, last, terminal, request

vars == <<isConnected, port, pendingResolves, responseBuffer,
          listening, now, calls, result, timers, wire, last, terminal,
          request>>

Calls == 1..MaxCalls

\* the promise of a call: not issued, pending, or settled
NoCall == [kind |-> "none", resp |-> << >>]
Pending == [kind |-> "pending", resp |-> << >>]
Resolved(response) == [kind |-> "response", resp |-> <<response>>]
Rejected(error) == [kind |-> error, resp |-> << >>]

\* resolve / reject of a promise: only a pending promise is settled
Settle(res, call, outcome) ==
    IF res[call].kind = "pending" THEN [res EXCEPT ![call] = outcome]
    ELSE res

\* Map.set: a new key goes last, an existing key keeps its place
MapSet(map, id, call) ==
    IF \E i \in 1..Len(map) : map[i].id = id
    THEN [i \in 1..Len(map) |->
             IF map[i].id = id THEN [id |-> id, call |-> call] ELSE map[i]]
    ELSE Append(map, [id |-> id, call |-> call])

\* Map.delete
MapDelete(map, id) == SelectSeq(map, LAMBDA e : e.id # id)

\* the calls whose closures the entries of the map hold
Owners(map) == {map[i].call : i \in 1..Len(map)}

\* reject(...) for every entry of the map, in order
RECURSIVE RejectAll(_, _, _)
RejectAll(res, map, error) ==
    IF map = << >> THEN res
    ELSE RejectAll(Settle(res, Head(map).call, Rejected(error)),
                   Tail(map), error)

(***************************************************************************)
(* The handlers work on a record st of the fields they read and write:     *)
(* responseBuffer, pendingResolves, timers, result, wire, and cands, the   *)
(* candidate frames validateFrame was asked about, in order.               *)
(***************************************************************************)
\* a sendAck that acknowledges only when a transaction is waiting
sendAckWhenPending(st) ==
    IF st.pendingResolves = << >> THEN st
    ELSE [st EXCEPT !.wire = Append(st.wire, <<ACK>>)]

\* sendAck (lines 166-179): one buffer holding 0x06 is handed to port.write
sendAck(st) == [st EXCEPT !.wire = Append(st.wire, <<ACK>>)]

\* a resolvePending that settles the promise only for an approved response
resolvePendingApprovedOnly(st, response) ==
    IF Len(st.pendingResolves) = 0 THEN st
    ELSE LET first == Head(st.pendingResolves) IN
         [st EXCEPT
            !.timers = {t \in st.timers : t.call # first.call},
            !.pendingResolves = SelectSeq(st.pendingResolves,
                                          LAMBDA e : e.id # first.id),
            !.result = IF response.success
                       THEN Settle(st.result, first.call, Resolved(response))
                       ELSE st.result]

\* a resolvePending that rejects the call when the response is a decline
resolvePendingRejectsDeclined(st, response) ==
    IF Len(st.pendingResolves) = 0 THEN st
    ELSE LET first == Head(st.pendingResolves) IN
         [st EXCEPT
            !.timers = {t \in st.timers : t.call # first.call},
            !.pendingResolves = SelectSeq(st.pendingResolves,
                                          LAMBDA e : e.id # first.id),
            !.result = Settle(st.result, first.call,
                              IF response.success THEN Resolved(response)
                              ELSE Rejected("Declined"))]

\* resolvePending (lines 258-274); parseResponse never sets response.error
resolvePending(st, response) ==
    IF Len(st.pendingResolves) = 0 THEN st
    ELSE LET first == Head(st.pendingResolves) IN
         [st EXCEPT
            !.timers = {t \in st.timers : t.call # first.call},
            !.pendingResolves = MapDelete(st.pendingResolves, first.id),
            !.result = Settle(st.result, first.call, Resolved(response))]

RECURSIVE processResponseBuffer(_)

\* a processResponseBuffer that acknowledges every candidate frame, and
\* validates it afterwards
processResponseBufferAckFirst(st) ==
    LET stxIndex == IndexOf(st.responseBuffer, STX, 0) IN
    IF stxIndex = -1 THEN [st EXCEPT !.responseBuffer = << >>]
    ELSE
    LET etxIndex == IndexOf(st.responseBuffer, ETX, stxIndex) IN
    IF etxIndex = -1 THEN st
    ELSE
    LET frameLength == etxIndex + 2 IN
    IF Len(st.responseBuffer) < frameLength THEN st
    ELSE
    LET completeFrame == Subarray(st.responseBuffer, stxIndex, frameLength)
        validation == validateFrame(completeFrame)
        st1 == IF validation.valid
               THEN resolvePending(sendAck(st), parseResponse(completeFrame))
               ELSE sendAck(st)
        st2 == [st1 EXCEPT
                  !.responseBuffer = SubarrayFrom(st.responseBuffer, frameLength),
                  !.cands = Append(st.cands, completeFrame)]
    IN  IF Len(st2.responseBuffer) > 0 THEN processResponseBuffer(st2)
        ELSE st2

\* processResponseBuffer (lines 204-253)
processResponseBuffer(st) ==
    LET stxIndex == IndexOf(st.responseBuffer, STX, 0) IN
    IF stxIndex = -1 THEN [st EXCEPT !.responseBuffer = << >>]
    ELSE
    LET etxIndex == IndexOf(st.responseBuffer, ETX, stxIndex) IN
    IF etxIndex = -1 THEN st
    ELSE
    LET frameLength == etxIndex + 2 IN
    IF Len(st.responseBuffer) < frameLength THEN st
    ELSE
    LET completeFrame == Subarray(st.responseBuffer, stxIndex, frameLength)
        validation == validateFrame(completeFrame)
        st1 == IF validation.valid
               THEN resolvePending(sendAck(st), parseResponse(completeFrame))
               ELSE st
        st2 == [st1 EXCEPT
                  !.responseBuffer = SubarrayFrom(st.responseBuffer, frameLength),
                  !.cands = Append(st.cands, completeFrame)]
    IN  IF Len(st2.responseBuffer) > 0 THEN processResponseBuffer(st2)
        ELSE st2

\* a handleData that answers the terminal's lone ACK with an ACK
handleDataAcksAck(st, data) ==
    LET st1 == [st EXCEPT !.responseBuffer = st.responseBuffer \o data] IN
    IF Len(st1.responseBuffer) = 1 /\ At(st1.responseBuffer, 0) = ACK
    THEN sendAck([st1 EXCEPT !.responseBuffer = << >>])
    ELSE processResponseBuffer(st1)

\* a handleData that takes a lone NACK as the terminal's refusal and fails
\* the first pending call
handleDataNackFails(st, data) ==
    LET st1 == [st EXCEPT !.responseBuffer = st.responseBuffer \o data] IN
    IF Len(st1.responseBuffer) = 1 /\ At(st1.responseBuffer, 0) = ACK
    THEN [st1 EXCEPT !.responseBuffer = << >>]
    ELSE IF st1.responseBuffer = <<NACK>> /\ st1.pendingResolves # << >>
    THEN LET first == Head(st1.pendingResolves) IN
         [st1 EXCEPT
            !.responseBuffer = << >>,
            !.timers = {t \in st1.timers : t.call # first.call},
            !.pendingResolves = MapDelete(st1.pendingResolves, first.id),
            !.result = Settle(st1.result, first.call,
                              Rejected("TransportError"))]
    ELSE processResponseBuffer(st1)

\* handleData (lines 184-199)
handleData(st, data) ==
    LET st1 == [st EXCEPT !.responseBuffer = st.responseBuffer \o data] IN
    IF Len(st1.responseBuffer) = 1 /\ At(st1.responseBuffer, 0) = ACK
    THEN [st1 EXCEPT !.responseBuffer = << >>]
    ELSE processResponseBuffer(st1)

(***************************************************************************)
(* Encoder pieces the requests are built from (lines 734-807).             *)
(***************************************************************************)
\* "6000000000"
TRANSPORT_HEADER == <<54, 48, 48, 48, 48, 48, 48, 48, 48, 48>>

\* HEADERS.HANDSHAKE, "1000  0"
HANDSHAKE == <<49, 48, 48, 48, 32, 32, 48>>

\* a purchase header of its own for requests without PAN, "1000001"
COMPRA_SIN_PAN == <<49, 48, 48, 48, 48, 48, 49>>

\* HEADERS.COMPRA and HEADERS.COMPRA_CON_PAN: both are "1000000"
COMPRA == <<49, 48, 48, 48, 48, 48, 48>>
COMPRA_CON_PAN == <<49, 48, 48, 48, 48, 48, 48>>

(***************************************************************************)
(* Strings are sequences of UTF-16 code units.  A non-negative integer is  *)
(* the sequence of its decimal digits, most significant first and without  *)
(* leading zeros (0 is <<0>>): amounts in cents run past 32 bits.          *)
(***************************************************************************)
\* str.repeat
Repeat(ch, count) == [i \in 1..count |-> ch]

\* String(number): one character "0".."9" per decimal digit
String(number) == [i \in 1..Len(number) |-> 48 + number[i]]

\* str.padStart(targetLength, ch) and str.padEnd(targetLength, ch)
padStart(str, targetLength, ch) == Repeat(ch, targetLength - Len(str)) \o str
padEnd(str, targetLength, ch) == str \o Repeat(ch, targetLength - Len(str))

\* str.substring(0, end)
substring(str, end) == SubSeq(str, 1, Min(end, Len(str)))

\* Buffer.from(str, "ascii"): the low byte of every code unit
BufferFromAscii(str) == [i \in 1..Len(str) |-> str[i] % 256]

\* buildField with the length its callers always pass:
\* [type, 2 ASCII digits][length, 2 bytes][value, padded or cut to length]
buildField(fieldType, value, length) ==
    LET typeBuffer == <<48 + (fieldType \div 10), 48 + (fieldType % 10)>>
        ascii == BufferFromAscii(value)
        valueBuffer == IF Len(ascii) < length
                       THEN ascii \o Repeat(32, length - Len(ascii))
                       ELSE Subarray(ascii, 0, length)
        lengthBuffer == <<length \div 256, length % 256>>
    IN  typeBuffer \o lengthBuffer \o valueBuffer

\* what a call of the encoder gives: a frame, or the error it throws
Built(frame) == [error |-> "none", frame |-> frame]
Thrown(error) == [error |-> error, frame |-> << >>]

\* a property of transactionData, or the default of the destructuring
Prop(transactionData, key, default) ==
    IF key \in DOMAIN transactionData THEN transactionData[key] ELSE default

\* an encoder whose LENGTH counts the ETX as well
buildLengthWithEtx(messageLength) ==
    LET d3 == ((messageLength + 1) \div 1000) % 10
        d2 == ((messageLength + 1) \div 100) % 10
        d1 == ((messageLength + 1) \div 10) % 10
        d0 == (messageLength + 1) % 10
    IN  <<(16 * d3) + d2, (16 * d1) + d0>>

\* buildLength: the four decimal digits of the length, read as two hex bytes
buildLength(messageLength) ==
    LET d3 == (messageLength \div 1000) % 10
        d2 == (messageLength \div 100) % 10
        d1 == (messageLength \div 10) % 10
        d0 == messageLength % 10
    IN  <<(16 * d3) + d2, (16 * d1) + d0>>

\* buildHandshakeFrame: the length counts the two headers, not ETX
buildHandshakeFrame ==
    LET messageBody == TRANSPORT_HEADER \o HANDSHAKE
        length == buildLength(Len(messageBody))
        message == messageBody \o <<ETX>>
        lrc == calculateLRC(length \o message)
    IN  <<STX>> \o length \o message \o <<lrc>>

\* the frame buildPurchaseFrame builds once its checks have passed
\* (lines 865-940)
purchaseFrame(transactionData) ==
    LET tax == Prop(transactionData, "tax", <<0>>)
        tip == Prop(transactionData, "tip", <<0>>)
        iac == Prop(transactionData, "iac", <<0>>)
        sendPan == Prop(transactionData, "sendPan", TRUE)
        transactionId == transactionData.transactionId
        amountStr == padStart(String(transactionData.amount), 12, 48)
        taxStr == padStart(String(tax), 12, 48)
        tipStr == padStart(String(tip), 12, 48)
        iacStr == padStart(String(iac), 12, 48)
        cashierStr == substring(padEnd(transactionData.cashierId, 12, 32), 12)
        terminalStr == substring(padEnd(transactionData.terminalId, 10, 32), 10)
        transactionStr == substring(padEnd(transactionId, 10, 32), 10)
        presentationHeader == IF sendPan THEN COMPRA_CON_PAN ELSE COMPRA
        messageBody ==
            TRANSPORT_HEADER \o presentationHeader
              \o <<SEPARATOR>> \o buildField(40, amountStr, 12)
              \o <<SEPARATOR>> \o buildField(41, taxStr, 12)
              \o <<SEPARATOR>> \o buildField(42, terminalStr, 10)
              \o <<SEPARATOR>> \o buildField(53, transactionStr, 10)
              \o <<SEPARATOR>> \o buildField(81, tipStr, 12)
              \o <<SEPARATOR>> \o buildField(82, iacStr, 12)
              \o <<SEPARATOR>> \o buildField(83, cashierStr, 12)
              \o <<SEPARATOR>> \o buildField(84, Repeat(48, 12), 12)
        length == buildLength(Len(messageBody))
        messageWithoutSTX == messageBody \o <<ETX>>
        lrc == calculateLRC(length \o messageWithoutSTX)
    IN  Built(<<STX>> \o length \o messageWithoutSTX \o <<lrc>>)

\* a buildPurchaseFrame that checks only that amount and transactionId are
\* there, not that they are filled
buildPurchaseFrameUnvalidated(transactionData) ==
    IF \/ "cashierId" \notin DOMAIN transactionData
       \/ "terminalId" \notin DOMAIN transactionData
    THEN Thrown("ReferenceError")
    ELSE
    IF \/ "amount" \notin DOMAIN transactionData
       \/ "transactionId" \notin DOMAIN transactionData
    THEN Thrown("InvalidRequest")
    ELSE purchaseFrame(transactionData)

\* buildPurchaseFrame.  The defaults of cashierId and terminalId read the
\* binding being initialised, so a transactionData without one of them
\* throws a ReferenceError; amount 0 or absent and transactionId "" or
\* absent throw "Monto y transactionId son requeridos".
buildPurchaseFrame(transactionData) ==
    IF \/ "cashierId" \notin DOMAIN transactionData
       \/ "terminalId" \notin DOMAIN transactionData
    THEN Thrown("ReferenceError")
    ELSE
    IF \/ "amount" \notin DOMAIN transactionData
       \/ transactionData.amount = <<0>>
       \/ "transactionId" \notin DOMAIN transactionData
       \/ transactionData.transactionId = << >>
    THEN Thrown("InvalidRequest")
    ELSE purchaseFrame(transactionData)

(***************************************************************************)
(* What the environment feeds the coordinator.                             *)
(***************************************************************************)
\* the frames callers pass to sendAndReceive
RequestFrames == {buildHandshakeFrame}

\* a frame as the terminal sends it: STX, body, ETX and the LRC of body+ETX
TerminalFrame(body) ==
    <<STX>> \o body \o <<ETX>> \o <<calculateLRC(body \o <<ETX>>)>>

\* a frame without fields, a frame with field 48 = "00", one with 48 = "51",
\* and a frame without fields whose LRC byte is wrong
PlainFrame == TerminalFrame(<<48, 50>>)
ApprovedFrame == TerminalFrame(<<SEPARATOR, 52, 56, 0, 2, 48, 48>>)
DeclinedFrame == TerminalFrame(<<SEPARATOR, 52, 56, 0, 2, 53, 49>>)
CorruptFrame == <<STX, 48, 50, ETX, 254>>

\* the chunks the port's "data" event delivers: the terminal's ACK, whole
\* frames, and a frame in two pieces
Chunks ==
    {<<ACK>>, PlainFrame, ApprovedFrame, CorruptFrame,
     SubSeq(PlainFrame, 1, 2), SubSeq(PlainFrame, 3, 5)}

(***************************************************************************)
(* Initial state: the constructor (lines 10-19).                           *)
(***************************************************************************)
\* the record kept in last: the step taken, the call it belongs to, for a
\* "data" event the chunk delivered and the candidate frames it completed,
\* for connect and disconnect how the promise they return was settled, and
\* for a direct call of validateFrame what it returned
Step(op, call) ==
    [op |-> op, call |-> call, data |-> << >>, cands |-> << >>,
     settled |-> "none", verdict |-> << >>]

DataStep(data, cands) ==
    [op |-> "data", call |-> 0, data |-> data, cands |-> cands,
     settled |-> "none", verdict |-> << >>]

\* connect and disconnect only ever call resolve(), or return
Returned(op) == [Step(op, 0) EXCEPT !.settled = "fulfilled"]

\* outside the purchase scenario there is no transactionData
NoRequest == [none |-> TRUE]

\* outside the reassembly scenario the terminal has nothing on the line
Quiet ==
    [frame |-> << >>, before |-> << >>, lead |-> 0, sent |-> 0,
     rest |-> << >>]

Init ==
    /\ isConnected = FALSE
    /\ port = "null"
    /\ pendingResolves = << >>
    /\ responseBuffer = << >>
    /\ listening = FALSE
    /\ now = 0
    /\ calls = 0
    /\ result = [c \in Calls |-> NoCall]
    /\ timers = {}
    /\ wire = << >>
    /\ last = Step("init", 0)
    /\ terminal = Quiet
    /\ request = NoRequest

(***************************************************************************)
(* connect (lines 24-92).  No fallback device: return.  Otherwise a new    *)
(* SerialPort replaces this.port and is opened; an open error only logs.   *)
(* A device held open by an earlier port object of the manager cannot be   *)
(* opened a second time.                                                   *)
(***************************************************************************)
ConnectNoDevice ==
    /\ last' = Returned("connect-nodevice")
    /\ wire' = << >>
    /\ UNCHANGED <<isConnected, port, pendingResolves, responseBuffer,
                   listening, now, calls, result, timers, terminal, request>>

ConnectOpenError ==
    /\ port' = "unopened"
    /\ last' = Returned("connect-error")
    /\ wire' = << >>
    /\ UNCHANGED <<isConnected, pendingResolves, responseBuffer,
                   listening, now, calls, result, timers, terminal, request>>

ConnectOpened ==
    /\ ~listening
    /\ port' = "open"
    /\ isConnected' = TRUE
    /\ listening' = TRUE
    /\ last' = Returned("connect")
    /\ wire' = << >>
    /\ UNCHANGED <<pendingResolves, responseBuffer, now, calls, result, timers,
                   terminal, request>>

(***************************************************************************)
(* disconnect (lines 97-114): nothing without a port or when not           *)
(* connected; otherwise the port is closed, which emits "close"            *)
(* (handleClose) before the callback clears isConnected.  Closing a port   *)
(* that is not open reports an error and changes nothing.                  *)
(***************************************************************************)
handleCloseResult == RejectAll(result, pendingResolves, "Closed")

Disconnect ==
    /\ last' = Returned("disconnect")
    /\ wire' = << >>
    /\ IF port = "null" \/ ~isConnected \/ port # "open"
       THEN UNCHANGED <<isConnected, port, pendingResolves, responseBuffer,
                        listening, result>>
       ELSE /\ port' = "closed"
            /\ listening' = FALSE
            /\ isConnected' = FALSE
            /\ responseBuffer' = << >>
            /\ result' = handleCloseResult
            /\ pendingResolves' = << >>
    /\ UNCHANGED <<now, calls, timers, terminal, request>>

\* a sendAndReceive without the isConnected test of lines 120-122
SendAndReceiveUnchecked(frame, sameMs) ==
    /\ calls < MaxCalls
    /\ calls' = calls + 1
    /\ last' = Step("send", calls + 1)
    /\ LET transactionId == IF sameMs THEN now ELSE calls + 1 IN
       /\ now' = transactionId
       /\ timers' = timers \cup {[call |-> calls + 1, id |-> transactionId]}
       /\ pendingResolves' = MapSet(pendingResolves, transactionId, calls + 1)
       /\ result' = [result EXCEPT ![calls + 1] = Pending]
       /\ wire' = <<frame>>
    /\ UNCHANGED <<isConnected, port, responseBuffer, listening, terminal,
                   request>>

\* a sendAndReceive that hands the frame to the port and leaves the entry
\* to be stored by a later turn of the event loop
SendAndReceiveWriteFirst(frame, sameMs) ==
    /\ calls < MaxCalls
    /\ calls' = calls + 1
    /\ last' = Step("send", calls + 1)
    /\ IF ~isConnected
       THEN /\ result' = [result EXCEPT ![calls + 1] = Rejected("NotConnected")]
            /\ wire' = << >>
            /\ UNCHANGED <<now, timers, pendingResolves>>
       ELSE LET transactionId == IF sameMs THEN now ELSE calls + 1 IN
            /\ now' = transactionId
            /\ timers' = timers \cup {[call |-> calls + 1, id |-> transactionId]}
            /\ pendingResolves' = pendingResolves
            /\ result' = [result EXCEPT ![calls + 1] = Pending]
            /\ wire' = <<frame>>
    /\ UNCHANGED <<isConnected, port, responseBuffer, listening, terminal,
                   request>>

(***************************************************************************)
(* sendAndReceive (lines 119-142) with sendFrame (lines 148-161).          *)
(* Date.now() never runs backwards, so the key of a call equals an earlier *)
(* key exactly when the clock has not moved since the previous accepted    *)
(* call read it (sameMs).  A clock value is named by the first call that   *)
(* read it; now is the value the previous accepted call read (0: none).    *)
(***************************************************************************)
SendAndReceive(frame, sameMs) ==
    /\ calls < MaxCalls
    /\ calls' = calls + 1
    /\ last' = Step("send", calls + 1)
    /\ IF ~isConnected
       THEN /\ result' = [result EXCEPT ![calls + 1] = Rejected("NotConnected")]
            /\ wire' = << >>
            /\ UNCHANGED <<now, timers, pendingResolves>>
       ELSE LET transactionId == IF sameMs THEN now ELSE calls + 1 IN
            /\ now' = transactionId
            /\ timers' = timers \cup {[call |-> calls + 1, id |-> transactionId]}
            /\ pendingResolves' = MapSet(pendingResolves, transactionId, calls + 1)
            /\ result' = [result EXCEPT ![calls + 1] = Pending]
            /\ wire' = <<frame>>
    /\ UNCHANGED <<isConnected, port, responseBuffer, listening, terminal,
                   request>>

\* a timer callback that rejects the call and leaves its entry in the map
TimerFireKeepsEntry(t) ==
    /\ t \in timers
    /\ timers' = timers \ {t}
    /\ pendingResolves' = pendingResolves
    /\ result' = Settle(result, t.call, Rejected("Timeout"))
    /\ last' = Step("timeout", t.call)
    /\ wire' = << >>
    /\ UNCHANGED <<isConnected, port, responseBuffer, listening, now, calls,
                   terminal, request>>

\* the setTimeout callback of a call (lines 131-134)
TimerFire(t) ==
    /\ t \in timers
    /\ timers' = timers \ {t}
    /\ pendingResolves' = MapDelete(pendingResolves, t.id)
    /\ result' = Settle(result, t.call, Rejected("Timeout"))
    /\ last' = Step("timeout", t.call)
    /\ wire' = << >>
    /\ UNCHANGED <<isConnected, port, responseBuffer, listening, now, calls,
                   terminal, request>>

\* the port's "data" event (line 81); the delivery may leave at most limit
\* bytes in responseBuffer
HandleData(data, limit) ==
    /\ listening
    /\ \E st \in {handleData([responseBuffer |-> responseBuffer,
                              pendingResolves |-> pendingResolves,
                              timers |-> timers,
                              result |-> result,
                              wire |-> << >>,
                              cands |-> << >>], data)} :
           /\ Len(st.responseBuffer) <= limit
           /\ responseBuffer' = st.responseBuffer
           /\ pendingResolves' = st.pendingResolves
           /\ timers' = st.timers
           /\ result' = st.result
           /\ wire' = st.wire
           /\ last' = DataStep(data, st.cands)
    /\ UNCHANGED <<isConnected, port, listening, now, calls>>

\* the port's "error" event: handleError (lines 279-288)
HandleError ==
    /\ listening
    /\ isConnected' = FALSE
    /\ result' = RejectAll(result, pendingResolves, "TransportError")
    /\ pendingResolves' = << >>
    /\ last' = Step("error", 0)
    /\ wire' = << >>
    /\ UNCHANGED <<port, responseBuffer, listening, now, calls, timers,
                   terminal, request>>

\* the port's "close" event without disconnect: handleClose (lines 293-303)
HandleClose ==
    /\ listening
    /\ listening' = FALSE
    /\ port' = IF port = "open" THEN "closed" ELSE port
    /\ isConnected' = FALSE
    /\ responseBuffer' = << >>
    /\ result' = handleCloseResult
    /\ pendingResolves' = << >>
    /\ last' = Step("close", 0)
    /\ wire' = << >>
    /\ UNCHANGED <<now, calls, timers, terminal, request>>

Next ==
    \/ ConnectNoDevice
    \/ ConnectOpenError
    \/ ConnectOpened
    \/ Disconnect
    \/ \E frame \in RequestFrames,
          sameMs \in (IF now = 0 THEN {FALSE} ELSE BOOLEAN) :
          SendAndReceive(frame, sameMs)
    \/ \E t \in timers : TimerFire(t)
    \/ \E data \in Chunks : HandleData(data, MaxStale)
                            /\ UNCHANGED <<terminal, request>>
    \/ HandleError
    \/ HandleClose

Spec == Init /\ [][Next]_vars

\* the runtime runs the callback of a timer that stays armed
FairSpec == Spec /\ WF_vars(\E t \in timers : TimerFire(t))

(***************************************************************************)
(* The reassembly scenario: one call is pending on an open port with an    *)
(* empty responseBuffer (the state connect and sendAndReceive leave), and  *)
(* the terminal answers with noise, a frame, and noise again.  The port    *)
(* hands the bytes to handleData in chunks of any size.                    *)
(***************************************************************************)
\* the sequences over the set bytes of length lo..hi
SeqsOf(bytes, lo, hi) == UNION {[1..n -> bytes] : n \in lo..hi}

\* noise in front of the frame holds no STX; noise behind it may
LeadBytes == {ETX, ACK}
TrailBytes == {STX, ETX}

\* the frames of the scenario: every sequence STX, body, last byte over these
\* bytes that validateFrame accepts
FrameBytes == {STX, ETX, 48}

ValidFrames ==
    {f \in {<<STX>> \o b : b \in SeqsOf(FrameBytes, 4, MaxBody + 1)} :
        validateFrame(f).valid}

ReasmInit ==
    /\ isConnected = TRUE
    /\ port = "open"
    /\ listening = TRUE
    /\ pendingResolves = <<[id |-> 1, call |-> 1]>>
    /\ responseBuffer = << >>
    /\ now = 1
    /\ calls = 1
    /\ result = [c \in Calls |-> IF c = 1 THEN Pending ELSE NoCall]
    /\ timers = {[call |-> 1, id |-> 1]}
    /\ wire = <<buildHandshakeFrame>>
    /\ last = Step("send", 1)
    /\ request = NoRequest
    /\ \E lead \in SeqsOf(LeadBytes, 0, MaxGarbage),
          frame \in ValidFrames,
          trail \in SeqsOf(TrailBytes, 0, MaxGarbage) :
          terminal = [frame |-> frame, before |-> lead, lead |-> Len(lead),
                      sent |-> 0,
                      rest |-> lead \o frame \o trail]

\* the port delivers the next n bytes of the line
Deliver(n) ==
    /\ n \in 1..Len(terminal.rest)
    /\ HandleData(SubSeq(terminal.rest, 1, n), Len(terminal.rest))
    /\ terminal' = [terminal EXCEPT
                       !.sent = @ + n,
                       !.rest = SubSeq(@, n + 1, Len(@))]
    /\ UNCHANGED request

ReasmNext == \E n \in 1..(MaxGarbage + MaxBody + 2 + MaxGarbage) : Deliver(n)

ReasmSpec == ReasmInit /\ [][ReasmNext]_vars

(***************************************************************************)
(* The recovery scenario: as the reassembly scenario, but the terminal     *)
(* first sends a candidate that fails validation (STX, bytes without ETX,  *)
(* ETX and a last byte: too short, or with a wrong LRC) and behind it a    *)
(* frame validateFrame accepts.                                            *)
(***************************************************************************)
BadCandidates ==
    {c \in {<<STX>> \o b \o <<ETX, l>> :
               b \in SeqsOf({STX, 48}, 0, MaxGarbage + 1), l \in {ETX, 48}} :
        ~validateFrame(c).valid}

RecoverInit ==
    /\ isConnected = TRUE
    /\ port = "open"
    /\ listening = TRUE
    /\ pendingResolves = <<[id |-> 1, call |-> 1]>>
    /\ responseBuffer = << >>
    /\ now = 1
    /\ calls = 1
    /\ result = [c \in Calls |-> IF c = 1 THEN Pending ELSE NoCall]
    /\ timers = {[call |-> 1, id |-> 1]}
    /\ wire = <<buildHandshakeFrame>>
    /\ last = Step("send", 1)
    /\ request = NoRequest
    /\ \E bad \in BadCandidates, frame \in ValidFrames :
          terminal = [frame |-> frame, before |-> bad, lead |-> Len(bad),
                      sent |-> 0,
                      rest |-> bad \o frame]

RecoverSpec == RecoverInit /\ [][ReasmNext]_vars

(***************************************************************************)
(* The pair scenario: as the reassembly scenario, but the terminal sends   *)
(* two frames back to back: frames validateFrame accepts, among them an    *)
(* approval and a decline.                                                 *)
(***************************************************************************)
PairFrames == ValidFrames \cup {ApprovedFrame, DeclinedFrame}

PairInit ==
    /\ isConnected = TRUE
    /\ port = "open"
    /\ listening = TRUE
    /\ pendingResolves = <<[id |-> 1, call |-> 1]>>
    /\ responseBuffer = << >>
    /\ now = 1
    /\ calls = 1
    /\ result = [c \in Calls |-> IF c = 1 THEN Pending ELSE NoCall]
    /\ timers = {[call |-> 1, id |-> 1]}
    /\ wire = <<buildHandshakeFrame>>
    /\ last = Step("send", 1)
    /\ request = NoRequest
    /\ \E first \in PairFrames, second \in PairFrames :
          terminal = [frame |-> second, before |-> first,
                      lead |-> Len(first), sent |-> 0,
                      rest |-> first \o second]

\* the port delivers up to two whole frames at once
PairNext ==
    \E n \in 1..(2 * Max(MaxBody + 2, Len(ApprovedFrame))) : Deliver(n)

PairSpec == PairInit /\ [][PairNext]_vars

(***************************************************************************)
(* The response scenario: as above, without noise; the terminal answers    *)
(* with a frame of TLV fields [SEPARATOR, type(2), length(2), value], the  *)
(* layout parseResponse scans for.                                         *)
(***************************************************************************)
\* a field as the terminal encodes it
TlvField(type, value) ==
    <<SEPARATOR>> \o type \o <<Len(value) \div 256, Len(value) % 256>> \o value

\* field 48 (response code) and field 45 (authorization code)
Field48(code) == TlvField(<<52, 56>>, code)
Field45 == TlvField(<<52, 53>>, <<65, 49>>)

\* the values of field 48 in the scenario: texts of "0", "1", "5" and " "
CodeBytes == {48, 49, 53, 32}
Codes == SeqsOf(CodeBytes, 0, MaxCode)

\* what the terminal answers: no field at all, field 45 alone, field 48
\* alone, or field 45 followed by field 48
Answers ==
    {[has45 |-> h, has48 |-> FALSE, code |-> << >>] : h \in BOOLEAN}
      \cup {[has45 |-> h, has48 |-> TRUE, code |-> c] :
                h \in BOOLEAN, c \in Codes}

ResponseFrame(answer) ==
    TerminalFrame((IF answer.has45 THEN Field45 ELSE << >>)
                    \o (IF answer.has48 THEN Field48(answer.code) ELSE << >>))

ResponseInit ==
    /\ isConnected = TRUE
    /\ port = "open"
    /\ listening = TRUE
    /\ pendingResolves = <<[id |-> 1, call |-> 1]>>
    /\ responseBuffer = << >>
    /\ now = 1
    /\ calls = 1
    /\ result = [c \in Calls |-> IF c = 1 THEN Pending ELSE NoCall]
    /\ timers = {[call |-> 1, id |-> 1]}
    /\ wire = <<buildHandshakeFrame>>
    /\ last = Step("send", 1)
    /\ request = NoRequest
    /\ \E answer \in Answers :
          terminal = [frame |-> ResponseFrame(answer), before |-> << >>,
                      lead |-> 0, sent |-> 0,
                      rest |-> ResponseFrame(answer)]

ResponseSpec == ResponseInit /\ [][ReasmNext]_vars

(***************************************************************************)
(* The purchase scenario: on a connected manager a caller builds the frame *)
(* of a purchase and hands it to sendAndReceive, as the /purchase route    *)
(* (src/routes/api.js, lines 204-210) and the repository's test do.        *)
(***************************************************************************)
\* characters of the identifiers: "A", U+0003 and U+0103
IdChars == {65, 3, 259}

\* amounts in cents: 0, 1, 5000000 and 1000000000007
Amounts ==
    {<<0>>, <<1>>, <<5, 0, 0, 0, 0, 0, 0>>,
     <<1, 0, 0, 0, 0, 0, 0, 0, 0, 0, 0, 0, 7>>}

\* tax, tip and iac: 0 and 19
Cents == {<<0>>, <<1, 9>>}

\* terminalId: every string over IdChars up to MaxId characters
TerminalIds == SeqsOf(IdChars, 0, MaxId)

\* transactionId: "", "T000000001" and the 11 characters "T0000000012"
TransactionIds ==
    {<< >>, <<84, 48, 48, 48, 48, 48, 48, 48, 48, 49>>,
     <<84, 48, 48, 48, 48, 48, 48, 48, 48, 49, 50>>}

\* cashierId: "" and "OSCROM"
CashierIds == {<< >>, <<79, 83, 67, 82, 79, 77>>}

\* a purchase of 5000000 cents (the first case of src/tests/test-tef.js) by
\* cashier "OSCROM" (the default of the /purchase route) at terminal "A"
SampleRequest ==
    [amount |-> <<5, 0, 0, 0, 0, 0, 0>>, tax |-> <<0>>, tip |-> <<0>>,
     iac |-> <<1, 9>>, cashierId |-> <<79, 83, 67, 82, 79, 77>>,
     terminalId |-> <<65>>,
     transactionId |-> <<84, 48, 48, 48, 48, 48, 48, 48, 48, 49>>,
     sendPan |-> TRUE]

\* transactionData without the property key
Omit(transactionData, key) ==
    [k \in DOMAIN transactionData \ {key} |-> transactionData[k]]

\* the transactionData objects of the scenario: every property present, or
\* one property of the sample missing
Requests ==
    [amount : Amounts, tax : Cents, tip : Cents, iac : Cents,
     cashierId : CashierIds, terminalId : TerminalIds,
     transactionId : TransactionIds, sendPan : BOOLEAN]
      \cup {Omit(SampleRequest, key) : key \in DOMAIN SampleRequest}

PurchaseInit ==
    /\ isConnected = TRUE
    /\ port = "open"
    /\ listening = TRUE
    /\ pendingResolves = << >>
    /\ responseBuffer = << >>
    /\ now = 0
    /\ calls = 0
    /\ result = [c \in Calls |-> NoCall]
    /\ timers = {}
    /\ wire = << >>
    /\ last = Step("init", 0)
    /\ terminal = Quiet
    /\ request \in Requests

\* frame = buildPurchaseFrame(request); sendAndReceive(frame).  An error
\* thrown by the encoder ends the caller before sendAndReceive is reached.
Purchase ==
    /\ last.op = "init"
    /\ \E built \in {buildPurchaseFrame(request)} :
          IF built.error # "none"
          THEN /\ last' = [Step("purchase", 0) EXCEPT !.settled = built.error]
               /\ UNCHANGED <<isConnected, port, pendingResolves,
                              responseBuffer, listening, now, calls, result,
                              timers, wire, terminal>>
          ELSE SendAndReceive(built.frame, FALSE)
    /\ UNCHANGED request

PurchaseNext ==
    \/ Purchase
    \/ \E t \in timers : TimerFire(t)

PurchaseSpec == PurchaseInit /\ [][PurchaseNext]_vars

(***************************************************************************)
(* The validation scenario: validateFrame is applied to a byte sequence    *)
(* as it stands and, when it was accepted, once more after the last byte   *)
(* has been inverted (XOR 0xFF) on the line.  terminal.frame is the        *)
(* sequence on the line; last.cands holds the accepted original.           *)
(***************************************************************************)
\* STX, ETX, "0" and "2"
ValidateBytes == {STX, ETX, 48, 50}

ValidateInputs == SeqsOf(ValidateBytes, 0, MaxFrame)

ValidateInit ==
    /\ isConnected = FALSE
    /\ port = "null"
    /\ pendingResolves = << >>
    /\ responseBuffer = << >>
    /\ listening = FALSE
    /\ now = 0
    /\ calls = 0
    /\ result = [c \in Calls |-> NoCall]
    /\ timers = {}
    /\ wire = << >>
    /\ last = Step("init", 0)
    /\ request = NoRequest
    /\ \E frame \in ValidateInputs :
          terminal = [frame |-> frame, before |-> << >>, lead |-> 0,
                      sent |-> 0, rest |-> << >>]

\* TEFProtocol.validateFrame(frame)
Validate ==
    /\ last.op \in {"init", "corrupt"}
    /\ last' = [Step("validate", 0) EXCEPT
                   !.data = terminal.frame,
                   !.cands = last.cands,
                   !.verdict = <<validateFrame(terminal.frame)>>]
    /\ UNCHANGED <<isConnected, port, pendingResolves, responseBuffer,
                   listening, now, calls, result, timers, wire, terminal,
                   request>>

\* the last byte of an accepted frame is inverted
Corrupt ==
    /\ last.op = "validate"
    /\ last.cands = << >>
    /\ last.verdict[1].valid
    /\ terminal' = [terminal EXCEPT
                       !.frame = [@ EXCEPT ![Len(@)] = BitXor(@, 255)]]
    /\ last' = [Step("corrupt", 0) EXCEPT !.cands = <<terminal.frame>>]
    /\ UNCHANGED <<isConnected, port, pendingResolves, responseBuffer,
                   listening, now, calls, result, timers, wire, request>>

ValidateNext == Validate \/ Corrupt

ValidateSpec == ValidateInit /\ [][ValidateNext]_vars

(***************************************************************************)
(* The parsing scenario: parseResponse is applied to a frame in which,     *)
(* behind nothing or one whole field, stands a TLV header that declares a  *)
(* length, or a header cut short by the end of the frame.                  *)
(***************************************************************************)
\* the lengths the header declares: 0, the 7 bytes of a field 48 with a
\* two-character code, and two lengths no frame of the scenario has left
DeclaredLengths == {0, 7, 10, 255}

\* the header of a field 51 declaring this length
TlvHeader(declared) ==
    <<SEPARATOR, 53, 49, declared \div 256, declared % 256>>

\* what stands in front of the header, and what follows it
FieldsBefore == {<< >>, Field45, Field48(<<53, 49>>)}
BytesAfter == {Field45} \cup {Field48(code) : code \in Codes}

\* the bodies of the frames: a header with bytes behind it, or the first
\* 1..4 bytes of a header and nothing behind them
ParseBodies ==
    {[before |-> pre, rest |-> TlvHeader(d) \o post] :
        pre \in FieldsBefore, d \in DeclaredLengths,
        post \in BytesAfter \cup {<< >>}}
      \cup {[before |-> pre, rest |-> SubSeq(TlvHeader(0), 1, n)] :
               pre \in FieldsBefore, n \in 1..4}

ParseInit ==
    /\ isConnected = FALSE
    /\ port = "null"
    /\ pendingResolves = << >>
    /\ responseBuffer = << >>
    /\ listening = FALSE
    /\ now = 0
    /\ calls = 0
    /\ result = [c \in Calls |-> NoCall]
    /\ timers = {}
    /\ wire = << >>
    /\ last = Step("init", 0)
    /\ request = NoRequest
    /\ \E body \in ParseBodies :
          terminal = [frame |-> TerminalFrame(body.before \o body.rest),
                      before |-> <<STX>> \o body.before,
                      lead |-> 1 + Len(body.before), sent |-> 0,
                      rest |-> << >>]

\* TEFProtocol.parseResponse(frame): result.fields as the loop leaves it,
\* and the object returned
Parse ==
    /\ last.op = "init"
    /\ last' = [Step("parse", 0) EXCEPT
                   !.data = terminal.frame,
                   !.verdict = <<[fields |->
                                     ParseFields(terminal.frame, 0, << >>),
                                  response |->
                                     parseResponse(terminal.frame)]>>]
    /\ UNCHANGED <<isConnected, port, pendingResolves, responseBuffer,
                   listening, now, calls, result, timers, wire, terminal,
                   request>>

ParseSpec == ParseInit /\ [][Parse]_vars

(***************************************************************************)
(* The exchange scenario: the port is open and nothing is pending (the     *)
(* state connect leaves).  The terminal answers the request frame it has   *)
(* just been written with one frame, which reaches the port some time      *)
(* later; terminal.answers holds the answers on their way, oldest first,   *)
(* each with the call whose request it answers.                            *)
(***************************************************************************)
AnswerFrames == {PlainFrame, ApprovedFrame, DeclinedFrame}

ExchangeInit ==
    /\ isConnected = TRUE
    /\ port = "open"
    /\ listening = TRUE
    /\ pendingResolves = << >>
    /\ responseBuffer = << >>
    /\ now = 0
    /\ calls = 0
    /\ result = [c \in Calls |-> NoCall]
    /\ timers = {}
    /\ wire = << >>
    /\ last = Returned("connect")
    /\ request = NoRequest
    /\ terminal = [answers |-> << >>]

\* the terminal reads the request written by the last step (line 152) and
\* puts its answer on the line
Answer ==
    /\ last.op = "send"
    /\ wire # << >>
    /\ \E frame \in AnswerFrames :
          terminal' = [terminal EXCEPT
                          !.answers = Append(@, [call |-> last.call,
                                                 frame |-> frame])]
    /\ last' = Step("answer", last.call)
    /\ wire' = << >>
    /\ UNCHANGED <<isConnected, port, pendingResolves, responseBuffer,
                   listening, now, calls, result, timers, request>>

\* the port's "data" event with the oldest answer on the line
DeliverAnswer ==
    /\ terminal.answers # << >>
    /\ HandleData(Head(terminal.answers).frame, 0)
    /\ terminal' = [terminal EXCEPT !.answers = Tail(@)]
    /\ UNCHANGED request

ExchangeNext ==
    \/ \E frame \in RequestFrames,
          sameMs \in (IF now = 0 THEN {FALSE} ELSE BOOLEAN) :
          SendAndReceive(frame, sameMs)
    \/ Answer
    \/ DeliverAnswer
    \/ \E t \in timers : TimerFire(t)

ExchangeSpec == ExchangeInit /\ [][ExchangeNext]_vars

(***************************************************************************)
(* The write scenario: the port is open and nothing is pending; next to    *)
(* the steps of the coordinator the port reports how the write of a        *)
(* request frame ended.  The callback of port.write (lines 152-159) reads  *)
(* and writes no field of the manager, so it is taken as the step that     *)
(* follows the call: its place among later steps makes no difference.      *)
(***************************************************************************)
WriteInit ==
    /\ isConnected = TRUE
    /\ port = "open"
    /\ listening = TRUE
    /\ pendingResolves = << >>
    /\ responseBuffer = << >>
    /\ now = 0
    /\ calls = 0
    /\ result = [c \in Calls |-> NoCall]
    /\ timers = {}
    /\ wire = << >>
    /\ last = Returned("connect")
    /\ request = NoRequest
    /\ terminal = Quiet

\* a write callback that gives up the transaction when the write failed
WriteCallbackFailsCall(error) ==
    /\ last.op = "send"
    /\ wire # << >>
    /\ last' = [Step("written", last.call) EXCEPT
                   !.settled = IF error THEN "write-error" ELSE "drain"]
    /\ wire' = << >>
    /\ IF error
       THEN /\ result' = Settle(result, last.call, Rejected("TransportError"))
            /\ pendingResolves' =
                  SelectSeq(pendingResolves, LAMBDA e : e.call # last.call)
            /\ timers' = {t \in timers : t.call # last.call}
       ELSE UNCHANGED <<result, pendingResolves, timers>>
    /\ UNCHANGED <<isConnected, port, responseBuffer, listening, now, calls,
                   terminal, request>>

\* the callback sendFrame passes to port.write (lines 152-159): an error is
\* logged, a success is logged and followed by port.drain()
WriteCallback(error) ==
    /\ last.op = "send"
    /\ wire # << >>
    /\ last' = [Step("written", last.call) EXCEPT
                   !.settled = IF error THEN "write-error" ELSE "drain"]
    /\ wire' = << >>
    /\ UNCHANGED <<isConnected, port, pendingResolves, responseBuffer,
                   listening, now, calls, result, timers, terminal, request>>

WriteNext ==
    \/ \E frame \in RequestFrames,
          sameMs \in (IF now = 0 THEN {FALSE} ELSE BOOLEAN) :
          SendAndReceive(frame, sameMs)
    \/ \E error \in BOOLEAN : WriteCallback(error)
    \/ \E t \in timers : TimerFire(t)
    \/ \E data \in Chunks : HandleData(data, MaxStale)
                            /\ UNCHANGED <<terminal, request>>
    \/ HandleError
    \/ HandleClose

WriteSpec == WriteInit /\ [][WriteNext]_vars

(***************************************************************************)
(* The refusal scenario: the port is open and nothing is pending; the      *)
(* terminal sends, next to its ACK and its frames, the single byte NACK.   *)
(***************************************************************************)
NackChunks == Chunks \cup {<<NACK>>}

NackNext ==
    \/ \E frame \in RequestFrames,
          sameMs \in (IF now = 0 THEN {FALSE} ELSE BOOLEAN) :
          SendAndReceive(frame, sameMs)
    \/ \E t \in timers : TimerFire(t)
    \/ \E data \in NackChunks : HandleData(data, MaxStale)
                                /\ UNCHANGED <<terminal, request>>

NackSpec == WriteInit /\ [][NackNext]_vars

(***************************************************************************)
(* Vocabulary of the claims.                                               *)
(***************************************************************************)
\* the calls that were accepted and have not completed
Unsettled == {c \in Calls : result[c].kind = "pending"}

\* the candidates of a delivery that pass validateFrame, in order
ValidCands(cands) == SelectSeq(cands, LAMBDA f : validateFrame(f).valid)

\* n writes of the single byte ACK
Acks(n) == [i \in 1..n |-> <<ACK>>]

\* the sum of the lengths of the frames of a sequence
RECURSIVE TotalLen(_)
TotalLen(frames) ==
    IF frames = << >> THEN 0 ELSE Len(Head(frames)) + TotalLen(Tail(frames))

IsSuffix(suffix, buf) ==
    /\ Len(suffix) <= Len(buf)
    /\ suffix = SubSeq(buf, Len(buf) - Len(suffix) + 1, Len(buf))

\* the bytes of every candidate of the delivery have left the buffer
CandsRemoved ==
    /\ IsSuffix(responseBuffer', responseBuffer \o last'.data)
    /\ Len(responseBuffer') + TotalLen(last'.cands)
          <= Len(responseBuffer \o last'.data)

\* this step is a delivery of inbound bytes / the call of sendAndReceive
IsData == last'.op = "data"
IsSend == last'.op = "send" /\ calls' = calls + 1

(***************************************************************************)
(* C1.  In every reachable state the set of pending transactions           *)
(* (pendingResolves) holds zero or one entry.                              *)
(* The source has no Busy check: a second call adds a second entry.        *)
(***************************************************************************)
C1_AtMostOnePending == Len(pendingResolves) <= 1

(***************************************************************************)
(* C2.  A sendAndReceive call issued while another transaction is pending  *)
(* fails immediately with Busy: no frame is written, no pending entry is   *)
(* registered, no timer is armed, and the first transaction is untouched.  *)
(***************************************************************************)
C2_SecondCallBusy ==
    [][(IsSend /\ isConnected /\ pendingResolves # << >>)
         => /\ result'[calls'].kind = "Busy"
            /\ wire' = << >>
            /\ pendingResolves' = pendingResolves
            /\ timers' = timers
            /\ \A c \in Calls : c # calls' => result'[c] = result[c]]_vars

(***************************************************************************)
(* C3.  When a candidate frame passes validation while a transaction is    *)
(* pending, one ACK byte is written per valid frame, the pending           *)
(* transaction is completed with the decoded response of the frame, the    *)
(* frame's bytes leave the buffer, and afterwards no transaction is        *)
(* pending.                                                                *)
(***************************************************************************)
C3_ValidFrameCompletes ==
    [][(IsData /\ ValidCands(last'.cands) # << >> /\ pendingResolves # << >>)
         => /\ wire' = Acks(Len(ValidCands(last'.cands)))
            /\ result'[Head(pendingResolves).call]
                  = Resolved(parseResponse(Head(ValidCands(last'.cands))))
            /\ CandsRemoved
            /\ pendingResolves' = << >>]_vars

(***************************************************************************)
(* C4.  The timer expiry of a call that has not completed completes it     *)
(* with Timeout and removes it from the pending set, leaving the           *)
(* connection as it was; a sendAndReceive issued while connected (in       *)
(* particular after a timeout) is accepted: its frame is written, its      *)
(* timer armed, and it is pending with an entry of its own.                *)
(***************************************************************************)
C4_TimeoutThenUsable ==
    [][/\ (last'.op = "timeout" /\ last'.call \in Unsettled)
            => /\ result'[last'.call] = Rejected("Timeout")
               /\ last'.call \notin Owners(pendingResolves')
               /\ \A c \in Calls : c # last'.call => result'[c] = result[c]
               /\ isConnected' = isConnected
               /\ port' = port
               /\ listening' = listening
       /\ (IsSend /\ isConnected)
            => /\ wire' \in {<<frame>> : frame \in RequestFrames}
               /\ result'[calls'] = Pending
               /\ calls' \in Owners(pendingResolves')
               /\ \E t \in timers' : t.call = calls']_vars

\* a call timed out, and a later call has just been accepted
C4_Witness ==
    /\ last.op = "send"
    /\ result[last.call] = Pending
    /\ \E c \in Calls : c < last.call /\ result[c] = Rejected("Timeout")
    /\ isConnected

(***************************************************************************)
(* C5.  Every accepted sendAndReceive call eventually completes, with a    *)
(* decoded response, Timeout, a transport error or Closed, provided        *)
(* timers fire.                                                            *)
(***************************************************************************)
C5_EveryCallCompletes ==
    \A c \in Calls :
        (result[c].kind = "pending")
            ~> (result[c].kind \in {"response", "Timeout",
                                    "TransportError", "Closed"})

\* both calls were accepted and both have completed
C5_Witness ==
    /\ calls >= 2
    /\ result[1].kind \in {"response", "Timeout", "TransportError", "Closed"}
    /\ result[2].kind \in {"response", "Timeout", "TransportError", "Closed"}
    /\ result[1].kind # result[2].kind

(***************************************************************************)
(* C6.  While no transaction is pending (for instance after a Timeout), a  *)
(* valid frame that arrives is acknowledged with one ACK byte but its      *)
(* response is dropped: no call is completed, the pending set stays empty  *)
(* and the frame's bytes leave the buffer.                                 *)
(***************************************************************************)
C6_LateFrameDropped ==
    [][(IsData /\ pendingResolves = << >>)
         => /\ wire' = Acks(Len(ValidCands(last'.cands)))
            /\ result' = result
            /\ pendingResolves' = << >>
            /\ CandsRemoved]_vars

\* a valid frame has just been acknowledged after a call timed out, and no
\* call has ever received a response
C6_Witness ==
    /\ last.op = "data"
    /\ ValidCands(last.cands) # << >>
    /\ wire = <<<<ACK>>>>
    /\ pendingResolves = << >>
    /\ \E c \in Calls : result[c] = Rejected("Timeout")
    /\ \A c \in Calls : result[c].kind # "response"

(***************************************************************************)
(* C7.  For any frame F that validateFrame accepts, delivered in chunks of *)
(* any size after noise without 0x02 and before trailing noise, the        *)
(* pending call stays pending until the last byte of F has been delivered  *)
(* and from then on is completed with parseResponse(F).                    *)
(* The source ends a frame at the first 0x03 after STX: a frame that       *)
(* holds 0x03 before its ETX is cut short and the call is not completed.   *)
(***************************************************************************)
C7_AnyValidFrameReassembled ==
    terminal.frame # << >> =>
        IF terminal.sent < terminal.lead + Len(terminal.frame)
        THEN result[1] = Pending
        ELSE result[1] = Resolved(parseResponse(terminal.frame))

(***************************************************************************)
(* C8.  A delivery that leaves the buffer holding exactly the byte 0x06 is *)
(* dropped: no call is completed or failed, nothing is written, and the    *)
(* buffer is left empty.                                                   *)
(***************************************************************************)
C8_LoneAckDropped ==
    [][(IsData /\ responseBuffer \o last'.data = <<ACK>>)
         => /\ result' = result
            /\ pendingResolves' = pendingResolves
            /\ timers' = timers
            /\ wire' = << >>
            /\ responseBuffer' = << >>]_vars

\* the terminal's ACK has just been dropped while a call is pending
C8_Witness ==
    /\ last.op = "data"
    /\ last.data = <<ACK>>
    /\ last.cands = << >>
    /\ responseBuffer = << >>
    /\ wire = << >>
    /\ pendingResolves # << >>

(***************************************************************************)
(* C9.  An ACK is written and a response delivered only for candidate      *)
(* frames that pass validateFrame: a delivery writes one ACK per valid     *)
(* candidate and nothing else, and a delivery without a valid candidate    *)
(* completes and fails no call and leaves the pending set and the timers   *)
(* alone.                                                                  *)
(***************************************************************************)
C9_AckOnlyForValid ==
    [][IsData
         => /\ wire' = Acks(Len(ValidCands(last'.cands)))
            /\ Cardinality({c \in Calls : result'[c] # result[c]})
                  <= Len(ValidCands(last'.cands))
            /\ ValidCands(last'.cands) = << >>
                  => /\ result' = result
                     /\ pendingResolves' = pendingResolves
                     /\ timers' = timers]_vars

\* a candidate frame has just failed validation while a call is pending
C9_Witness ==
    /\ last.op = "data"
    /\ last.cands # << >>
    /\ ValidCands(last.cands) = << >>
    /\ wire = << >>
    /\ pendingResolves # << >>

(***************************************************************************)
(* C10.  When the port reports an error, every call that is pending        *)
(* completes with a transport error, the pending set becomes empty and     *)
(* the coordinator becomes not connected; from then on sendAndReceive      *)
(* fails with NotConnected until a connect succeeds.                       *)
(***************************************************************************)
C10_PortErrorFailsPending ==
    [][/\ last'.op = "error"
            => /\ \A c \in Unsettled : result'[c] = Rejected("TransportError")
               /\ pendingResolves' = << >>
               /\ isConnected' = FALSE
       /\ (IsSend /\ ~isConnected)
            => result'[calls'] = Rejected("NotConnected")
       /\ (~isConnected /\ isConnected') => last'.op = "connect"]_vars

(***************************************************************************)
(* C11.  Closing the transport, by disconnect or by a close event of the   *)
(* port, in any state completes every pending call with Closed, empties    *)
(* the pending set and the reassembly buffer, and leaves the coordinator   *)
(* not connected.                                                          *)
(* disconnect returns at once when isConnected is false: after a port      *)
(* error it closes nothing and leaves responseBuffer as it is.             *)
(***************************************************************************)
C11_CloseCompletesAndClears ==
    [][(last'.op \in {"disconnect", "close"})
         => /\ \A c \in Unsettled : result'[c] = Rejected("Closed")
            /\ pendingResolves' = << >>
            /\ responseBuffer' = << >>
            /\ isConnected' = FALSE]_vars

(***************************************************************************)
(* C12.  sendAndReceive called while not connected fails with              *)
(* NotConnected and changes nothing: nothing is written, no pending entry  *)
(* and no timer is created, and the reassembly buffer, the port and the    *)
(* connection flag are as before.                                          *)
(***************************************************************************)
C12_NotConnectedChangesNothing ==
    [][(IsSend /\ ~isConnected)
         => /\ result'[calls'] = Rejected("NotConnected")
            /\ \A c \in Calls : c # calls' => result'[c] = result[c]
            /\ wire' = << >>
            /\ pendingResolves' = pendingResolves
            /\ timers' = timers
            /\ responseBuffer' = responseBuffer
            /\ isConnected' = FALSE
            /\ port' = port
            /\ listening' = listening]_vars

\* a call has just failed with NotConnected after a port error, with bytes of
\* an unfinished frame in the buffer and the timer of an earlier call armed
C12_Witness ==
    /\ last.op = "send"
    /\ result[last.call] = Rejected("NotConnected")
    /\ ~isConnected
    /\ port = "open"
    /\ responseBuffer # << >>
    /\ timers # {}
    /\ pendingResolves = << >>

\* the answer the terminal's frame was built from
Answered(answer) == terminal.frame # << >> /\ terminal.frame = ResponseFrame(answer)

\* the candidates of a delivery that pass validateFrame and carry a field 48
\* whose text is not "00"
DeclineCands(cands) ==
    SelectSeq(ValidCands(cands),
              LAMBDA f : /\ <<52, 56>> \in DOMAIN ParseFields(f, 0, << >>)
                         /\ ParseFields(f, 0, << >>)[<<52, 56>>].ascii # <<48, 48>>)

(***************************************************************************)
(* C13.  A valid frame whose field 48 is not "00", arriving while a call   *)
(* is pending, completes that call with a response (the call does not      *)
(* fail) whose success flag is false; no delivery of inbound bytes makes a *)
(* call fail.                                                              *)
(***************************************************************************)
C13_DeclineIsAResponse ==
    [][IsData
         => /\ (pendingResolves # << >>
                   /\ ValidCands(last'.cands) # << >>
                   /\ Head(ValidCands(last'.cands)) \in
                        {DeclineCands(last'.cands)[i] :
                            i \in 1..Len(DeclineCands(last'.cands))})
                 => /\ result'[Head(pendingResolves).call].kind = "response"
                    /\ ~result'[Head(pendingResolves).call].resp[1].success
                    /\ result'[Head(pendingResolves).call].resp[1].status
                          = "DECLINED"
            /\ \A c \in Calls :
                   result'[c] # result[c] => result'[c].kind = "response"]_vars

\* the call has been completed with a declined response carrying code "51"
C13_Witness ==
    /\ Answered([has45 |-> FALSE, has48 |-> TRUE, code |-> Code(5, 1)])
    /\ result[1].kind = "response"
    /\ ~result[1].resp[1].success
    /\ result[1].resp[1].errorCode = <<Code(5, 1)>>
    /\ pendingResolves = << >>

(***************************************************************************)
(* C14.  parseResponse reports success = true if and only if the frame     *)
(* carries a field 48 whose value, read as ASCII and trimmed, is "00"; a   *)
(* frame without field 48, or with any other value, yields success =       *)
(* false.                                                                  *)
(***************************************************************************)
C14_ApprovedIffCode00 ==
    \A answer \in Answers :
        Answered(answer)
          => /\ parseResponse(terminal.frame).success
                  = (answer.has48 /\ AsciiTrim(answer.code) = <<48, 48>>)
             /\ \A c \in Calls :
                   result[c].kind = "response"
                     => result[c].resp[1].success
                          = (answer.has48 /\ AsciiTrim(answer.code) = <<48, 48>>)

\* the call has been completed with the approved response of a frame that
\* carries fields 45 and 48 = "00"
C14_Witness ==
    /\ Answered([has45 |-> TRUE, has48 |-> TRUE, code |-> Code(0, 0)])
    /\ result[1].kind = "response"
    /\ result[1].resp[1].success
    /\ result[1].resp[1].transactionData[1].authorizationCode = <<65, 49>>

(***************************************************************************)
(* C15.  The response decoded from a frame whose field 48 is a            *)
(* two-character code other than "00" carries that code and the message    *)
(* getResponseMessage assigns to it.                                       *)
(* validateParsedTransaction never calls getResponseMessage: the message   *)
(* of every decline is "Pago rechazado".                                   *)
(***************************************************************************)
C15_DeclineCarriesDictionaryMessage ==
    \A answer \in Answers :
        (/\ Answered(answer)
         /\ answer.has48
         /\ Len(AsciiTrim(answer.code)) = 2
         /\ AsciiTrim(answer.code) # <<48, 48>>
         /\ result[1].kind = "response")
          => /\ result[1].resp[1].errorCode = <<AsciiTrim(answer.code)>>
             /\ Message(result[1].resp[1].message, << >>)
                   = getResponseMessage(AsciiTrim(answer.code))

\* the steps that are calls of connect
ConnectOps == {"connect", "connect-error", "connect-nodevice"}

(***************************************************************************)
(* C16.  connect makes a coordinator connected only when the device was    *)
(* opened; when it was not (open error, or no fallback device) connect     *)
(* reports an error to its caller and the coordinator stays not            *)
(* connected.                                                              *)
(* connect resolves its promise on every path and never rejects.           *)
(***************************************************************************)
C16_ConnectReportsFailure ==
    [][/\ (~isConnected /\ isConnected')
            => (last'.op = "connect" /\ port' = "open")
       /\ (~isConnected /\ last'.op \in {"connect-error", "connect-nodevice"})
            => /\ last'.settled = "rejected"
               /\ isConnected' = FALSE]_vars

(***************************************************************************)
(* C17.  connect on a coordinator whose port is open is an error reported  *)
(* to the caller, and leaves the open port, its handlers, the connection   *)
(* flag and the pending calls as they were.                                *)
(* connect has no test for an open port: it replaces this.port by a new    *)
(* SerialPort, whose open fails, and resolves.                             *)
(***************************************************************************)
C17_ConnectWhileOpenIsError ==
    [][(last'.op \in ConnectOps /\ port = "open" /\ listening)
         => /\ last'.settled = "rejected"
            /\ port' = "open"
            /\ listening' = TRUE
            /\ isConnected' = isConnected
            /\ pendingResolves' = pendingResolves
            /\ timers' = timers
            /\ result' = result]_vars

(***************************************************************************)
(* C18.  In mock mode, without serial hardware, a sendAndReceive issued    *)
(* after connect has returned is accepted, and every accepted call         *)
(* completes with an approved response.                                    *)
(* SerialManager never reads tef.mockMode: its behaviours in mock mode     *)
(* are those of Spec, and without hardware connect opens nothing.          *)
(***************************************************************************)
C18_MockCallsApproved ==
    [][/\ (IsSend /\ last.op \in ConnectOps) => result'[calls'] = Pending
       /\ \A c \in Calls :
              (result[c] = Pending /\ result'[c] # Pending)
                => /\ result'[c].kind = "response"
                   /\ result'[c].resp[1].success]_vars

\* a request with every property, a positive amount of at most 20 digits
\* and identifiers within their widths
Legal(transactionData) ==
    /\ DOMAIN transactionData = DOMAIN SampleRequest
    /\ transactionData.amount # <<0>>
    /\ Len(transactionData.amount) <= 20
    /\ Len(transactionData.terminalId) <= 10
    /\ Len(transactionData.transactionId) \in 1..10
    /\ Len(transactionData.cashierId) <= 12

\* the frame of the purchase has just been handed to port.write
PurchaseSent == last.op = "send" /\ request # NoRequest

(***************************************************************************)
(* C19: every frame buildPurchaseFrame produces for a legal request begins *)
(* with STX, ends with ETX followed by its LRC byte, the LRC is the XOR of *)
(* every byte from the start of LENGTH through ETX, and validateFrame      *)
(* accepts the frame.                                                      *)
(* The code departs from it: validateFrame ends the checksum range at the  *)
(* first byte 0x03 of the frame, and an identifier may hold one.           *)
(***************************************************************************)
C19_PurchaseFrameValidates ==
    (PurchaseSent /\ Legal(request)) =>
        LET F == wire[1]
            n == Len(F)
        IN  /\ F[1] = STX
            /\ F[n - 1] = ETX
            /\ F[n] = calculateLRC(SubSeq(F, 2, n - 1))
            /\ validateFrame(F).valid

\* the value four ASCII decimal digits spell, -1 when a byte is no digit
AsciiDecimal(bytes) ==
    IF \A i \in 1..4 : bytes[i] \in 48..57
    THEN (1000 * (bytes[1] - 48)) + (100 * (bytes[2] - 48))
           + (10 * (bytes[3] - 48)) + (bytes[4] - 48)
    ELSE -1

\* the value two bytes of packed BCD spell, two decimal digits to the byte,
\* -1 when a nibble is no digit
BcdDecimal(bytes) ==
    IF \A i \in 1..2 : (bytes[i] \div 16) <= 9 /\ (bytes[i] % 16) <= 9
    THEN (1000 * (bytes[1] \div 16)) + (100 * (bytes[1] % 16))
           + (10 * (bytes[2] \div 16)) + (bytes[2] % 16)
    ELSE -1

\* LENGTH as four ASCII digits at positions 1..5 counting up to and with ETX
AsciiLength(F) == AsciiDecimal(Subarray(F, 1, 5)) = Len(F) - 6

\* LENGTH as two BCD bytes at positions 1..3 counting up to ETX, without it
BcdLength(F) == BcdDecimal(Subarray(F, 1, 3)) = Len(F) - 5

Decimal(text) ==
    LET significant == {i \in 1..Len(text) : text[i] # 48}
    IN  IF significant = {} THEN <<0>>
        ELSE LET first == CHOOSE i \in significant :
                              \A j \in significant : i <= j
             IN  [i \in 1..(Len(text) - first + 1) |->
                     text[first + i - 1] - 48]

\* result.fields of parseResponse holds a field of this type, of this
\* length and with these bytes as its value
Recovered(fields, fieldType, width, value) ==
    LET key == <<48 + (fieldType \div 10), 48 + (fieldType % 10)>>
    IN  /\ key \in DOMAIN fields
        /\ fields[key].length = width
        /\ fields[key].raw = value

(***************************************************************************)
(* C21: for every legal purchase request, parsing the frame of             *)
(* buildPurchaseFrame recovers fields 40, 41, 42, 53, 81, 82, 83 and 84,   *)
(* each of its declared width and holding the value of the request padded  *)
(* to that width with zeros on the left (numbers) or spaces on the right   *)
(* (text); the decimal value of field 40 is the amount.                    *)
(* The code departs from it: a number of more than 12 digits loses its     *)
(* last digits in buildField.                                              *)
(***************************************************************************)
C21_PurchaseRoundTrip ==
    (PurchaseSent /\ Legal(request)) =>
        LET fields == ParseFields(wire[1], 0, << >>)
        IN  /\ Recovered(fields, 40, 12, padStart(String(request.amount), 12, 48))
            /\ Recovered(fields, 41, 12, padStart(String(request.tax), 12, 48))
            /\ Recovered(fields, 42, 10, padEnd(request.terminalId, 10, 32))
            /\ Recovered(fields, 53, 10, padEnd(request.transactionId, 10, 32))
            /\ Recovered(fields, 81, 12, padStart(String(request.tip), 12, 48))
            /\ Recovered(fields, 82, 12, padStart(String(request.iac), 12, 48))
            /\ Recovered(fields, 83, 12, padEnd(request.cashierId, 12, 32))
            /\ Recovered(fields, 84, 12, Repeat(48, 12))
            /\ Decimal(fields[<<52, 48>>].raw) = request.amount

\* a request with its cashierId and terminalId whose amount is 0 or absent,
\* or whose transactionId is "" or absent
Unfilled(transactionData) ==
    /\ {"cashierId", "terminalId"} \subseteq DOMAIN transactionData
    /\ \/ "amount" \notin DOMAIN transactionData
       \/ transactionData.amount = <<0>>
       \/ "transactionId" \notin DOMAIN transactionData
       \/ transactionData.transactionId = << >>

ShortFrame == {"Trama demasiado corta"}
MalformedFrame == {"STX no encontrado", "ETX no encontrado"}
ChecksumMismatch == {"LRC invalido"}

(***************************************************************************)
(* C23: validateFrame classifies every input.  Fewer than 5 bytes:         *)
(* ShortFrame.  Otherwise a first byte other than STX, or no ETX at all:   *)
(* MalformedFrame.  Otherwise, when the XOR of the bytes from index 1      *)
(* through ETX differs from the last byte: ChecksumMismatch with the       *)
(* expected and the received LRC.  Otherwise: valid.  And a valid frame    *)
(* whose last byte is XOR-ed with 0xFF gives ChecksumMismatch whose        *)
(* expected LRC is the original last byte.                                 *)
(* ETX is read here as validateFrame finds it, the first byte 0x03.  The   *)
(* code departs from the last sentence: it accepts a sequence whose only   *)
(* ETX is its last byte, and inverting that byte leaves no ETX.            *)
(***************************************************************************)
C23_ValidateFrameClassifies ==
    last.op = "validate" =>
        LET frame == last.data
            verdict == last.verdict[1]
            etxIndex == IndexOf(frame, ETX, 0)
            lrc == calculateLRC(Subarray(frame, 1, etxIndex + 1))
        IN  /\ IF Len(frame) < 5 THEN verdict.error \in ShortFrame
               ELSE IF frame[1] # STX \/ etxIndex = -1
               THEN verdict.error \in MalformedFrame
               ELSE IF lrc # frame[Len(frame)]
               THEN /\ verdict.error \in ChecksumMismatch
                    /\ verdict.expected = lrc
                    /\ verdict.received = frame[Len(frame)]
               ELSE verdict.valid
            /\ last.cands # << >> =>
                   /\ verdict.error \in ChecksumMismatch
                   /\ verdict.expected = last.cands[1][Len(last.cands[1])]

\* the request with sendPan set to flag and nothing else changed
WithSendPan(transactionData, flag) ==
    [k \in DOMAIN transactionData \cup {"sendPan"} |->
        IF k = "sendPan" THEN flag ELSE transactionData[k]]

(***************************************************************************)
(* C24: the bytes of buildPurchaseFrame do not depend on sendPan: two      *)
(* requests that differ only in sendPan give the same frame, byte for      *)
(* byte (and the same refusal when the encoder refuses them).              *)
(***************************************************************************)
C24_FrameIgnoresSendPan ==
    \A flag \in BOOLEAN :
        /\ PurchaseSent =>
               buildPurchaseFrame(WithSendPan(request, flag)) = Built(wire[1])
        /\ last.op = "purchase" =>
               buildPurchaseFrame(WithSendPan(request, flag))
                 = Thrown(last.settled)

\* the frame of a request with sendPan false is on the wire
C24_Witness ==
    /\ PurchaseSent
    /\ "sendPan" \in DOMAIN request
    /\ request.sendPan = FALSE
    /\ wire[1] = buildPurchaseFrame(WithSendPan(request, TRUE)).frame

\* a buffer that starts a frame and does not hold the whole of it: no ETX
\* yet, or the ETX without the LRC byte behind it
Incomplete(buf) ==
    LET etxIndex == IndexOf(buf, ETX, 0)
    IN  etxIndex = -1 \/ etxIndex = Len(buf) - 1

(***************************************************************************)
(* C25: once handleData has processed a delivery, responseBuffer is empty  *)
(* or begins with STX and holds at most one incomplete frame: no complete  *)
(* frame stays in it, and no stale bytes stay in front of an STX.          *)
(* The code departs from it: bytes in front of the first STX stay in the   *)
(* buffer until the frame behind them is complete.                         *)
(***************************************************************************)
C25_BufferStartsWithStx ==
    \/ responseBuffer = << >>
    \/ /\ responseBuffer[1] = STX
       /\ Incomplete(responseBuffer)

(***************************************************************************)
(* C26: when a candidate fails validation only its bytes, through its LRC  *)
(* position, leave responseBuffer: the bytes received behind it stay       *)
(* buffered, and a valid frame that follows it, in the same delivery or a  *)
(* later one, is acknowledged and delivered to the pending call.           *)
(* The code departs from it where it departs from C7: a frame with a byte  *)
(* 0x03 before its end is cut at that byte.                                *)
(***************************************************************************)
C26_FailedCandidateOnlyDiscarded ==
    [][LET end == terminal.lead + Len(terminal.frame)
       IN  /\ (terminal.lead <= terminal'.sent /\ terminal'.sent < end)
                 => /\ responseBuffer'
                         = SubSeq(terminal.frame, 1,
                                  terminal'.sent - terminal.lead)
                    /\ result'[1] = Pending
                    /\ wire' = << >>
           /\ (terminal.sent < end /\ terminal'.sent >= end)
                 => /\ responseBuffer' = << >>
                    /\ result'[1] = Resolved(parseResponse(terminal.frame))
                    /\ wire' = Acks(1)]_vars

LeavesTwoFrames ==
    /\ IsData
    /\ terminal.before # << >>
    /\ terminal.sent < terminal.lead
    /\ terminal'.sent = terminal.lead + Len(terminal.frame)

(***************************************************************************)
(* C28: when one delivery leaves two complete valid frames in the buffer,  *)
(* both are processed within that delivery in the order of arrival: two    *)
(* ACK bytes are written, the first frame completes the pending call, the  *)
(* second is consumed without completing it again, and the buffer ends     *)
(* empty.                                                                  *)
(* The code departs from it where it departs from C7: a frame with a byte  *)
(* 0x03 before its end is cut at that byte.                                *)
(***************************************************************************)
C28_TwoFramesInOneDelivery ==
    [][LeavesTwoFrames =>
          /\ wire' = Acks(2)
          /\ result'[1] = Resolved(parseResponse(terminal.before))
          /\ \A c \in Calls \ {1} : result'[c] = result[c]
          /\ responseBuffer' = << >>]_vars

\* the TLV at the 0-based index lead of the frame is malformed: its header
\* is cut short by the end of the frame, or it declares more bytes than
\* remain behind the header
MalformedTlv(frame, lead) ==
    \/ lead + 5 > Len(frame)
    \/ (256 * frame[lead + 4]) + frame[lead + 5] > Len(frame) - (lead + 5)

(***************************************************************************)
(* C29: when parseResponse meets a TLV that declares more bytes than       *)
(* remain, or whose type/length prefix is cut short, it stops scanning:    *)
(* result.fields holds the fields parsed before it and no field taken from *)
(* the bytes that follow the header of the malformed TLV.                  *)
(* The code departs from it: the loop goes on behind the header and takes  *)
(* the next separator it finds as the start of a field.                    *)
(***************************************************************************)
C29_MalformedTlvStopsScan ==
    (last.op = "parse" /\ MalformedTlv(last.data, terminal.lead)) =>
        last.verdict[1].fields = ParseFields(terminal.before, 0, << >>)

(***************************************************************************)
(* C30: every accepted sendAndReceive call owns its own entry of           *)
(* pendingResolves while it is pending: registering a later call leaves    *)
(* the entry of every earlier call in the map, also when both calls fall   *)
(* into one clock millisecond, and the expiry of a timer removes no entry  *)
(* but that of the call that armed it.                                     *)
(* The code departs from it: the key is Date.now().toString(), so a call   *)
(* of the same millisecond takes over the entry of the earlier call, and   *)
(* the earlier call's timer then deletes the later call's entry.           *)
(***************************************************************************)
C30_EachCallOwnsItsEntry ==
    [][/\ last'.op = "send" =>
             Owners(pendingResolves) \subseteq Owners(pendingResolves')
       /\ last'.op = "timeout" =>
             Owners(pendingResolves) \ {last'.call}
                 \subseteq Owners(pendingResolves')]_vars

(***************************************************************************)
(* C31: a transaction is only ever completed with the response frame that  *)
(* answers its own request: a delivery completes no call but the one whose *)
(* request the delivered frame answers; in particular the answer to a      *)
(* request that has timed out never becomes the result of a call made      *)
(* after the timeout.                                                      *)
(* The code departs from it: resolvePending hands the response to the      *)
(* first entry of pendingResolves, whichever call registered it.           *)
(***************************************************************************)
C31_OnlyOwnAnswerCompletes ==
    [][IsData =>
          \A c \in Calls :
              result'[c] # result[c] =>
                  /\ terminal.answers # << >>
                  /\ Head(terminal.answers).call = c]_vars

(***************************************************************************)
(* C32: bytes that earlier traffic left in responseBuffer do not keep a    *)
(* later frame from being decoded and delivered: when a call is accepted   *)
(* while the buffer holds such bytes and nothing else is pending, and the  *)
(* port then delivers in one piece a frame that validateFrame accepts,     *)
(* the call is completed with the decoded response of that frame.          *)
(* The code departs from it: neither the timer callback nor handleError    *)
(* nor sendAndReceive empties the buffer, and a candidate starts at the    *)
(* first STX of the buffer, which is the STX of the old partial frame.     *)
(***************************************************************************)
C32_StaleBytesDoNotBlock ==
    [][(/\ last.op = "send"
        /\ pendingResolves = <<[id |-> now, call |-> last.call]>>
        /\ responseBuffer # << >>
        /\ IsData
        /\ validateFrame(last'.data).valid)
         => result'[last.call] = Resolved(parseResponse(last'.data))]_vars

(***************************************************************************)
(* C33: whenever the coordinator is not connected (before connect, after   *)
(* a port error, after a close) the pending set is empty: pendingResolves  *)
(* has no entry and no accepted call is still waiting for its outcome.     *)
(* The code departs from it: pendingResolves is empty then, but a call     *)
(* whose entry a later call of the same millisecond took over is not       *)
(* reached by handleError or handleClose and stays pending.                *)
(***************************************************************************)
C33_DisconnectedHasNoPending ==
    ~isConnected => (pendingResolves = << >> /\ Unsettled = {})

\* the calls that have got their outcome
Completed == {c \in Calls : result[c].kind \notin {"none", "pending"}}

(***************************************************************************)
(* C34: every accepted sendAndReceive call gets at most one outcome: once  *)
(* a call has completed, no later step changes its outcome, and the        *)
(* expiry of its own timer leaves pendingResolves as it is.                *)
(* The code departs from it: the timer of a call failed by handleError or  *)
(* handleClose keeps running, and its callback deletes the entry under     *)
(* the call's key, which a later call of the same millisecond may hold.    *)
(***************************************************************************)
C34_AtMostOneOutcome ==
    [][\A c \in Completed :
          /\ result'[c] = result[c]
          /\ (last'.op = "timeout" /\ last'.call = c)
                => pendingResolves' = pendingResolves]_vars

\* the calls whose timeout timer is armed
Armed == {t.call : t \in timers}

(***************************************************************************)
(* C35: a timeout timer is armed exactly while its call has an entry in    *)
(* pendingResolves: when a call leaves the map by a response, a port       *)
(* error or a close, its timer is cancelled, so that no timer runs for a   *)
(* completed call.                                                         *)
(* The code departs from it: resolvePending calls clearTimeout, while      *)
(* handleError and handleClose reject the calls and clear the map and      *)
(* leave every timer armed.                                                *)
(***************************************************************************)
C35_TimerArmedWhilePending == Armed = Owners(pendingResolves)

(***************************************************************************)
(* C36: a failed write of the request frame changes no state of the        *)
(* coordinator: the call stays pending with its entry and its timer, the   *)
(* connection flag stays true and nothing is written; and a pending call   *)
(* is completed only by a delivery with a valid frame, by its own timer,   *)
(* by a port error or by a close.                                          *)
(***************************************************************************)
C36_FailedWriteChangesNothing ==
    [][/\ (last'.op = "written" /\ last'.settled = "write-error")
            => /\ result' = result
               /\ pendingResolves' = pendingResolves
               /\ timers' = timers
               /\ isConnected' = isConnected
               /\ port' = port
               /\ listening' = listening
               /\ responseBuffer' = responseBuffer
               /\ wire' = << >>
       /\ \A c \in Unsettled :
             result'[c] # result[c]
                => \/ IsData /\ ValidCands(last'.cands) # << >>
                   \/ last'.op = "timeout" /\ last'.call = c
                   \/ last'.op \in {"error", "close"}]_vars

\* the write of a request has just failed while the port is open: the call
\* is pending, with its entry and its timer
C36_Witness ==
    /\ last.op = "written"
    /\ last.settled = "write-error"
    /\ isConnected
    /\ result[last.call] = Pending
    /\ last.call \in Owners(pendingResolves)
    /\ last.call \in Armed

(***************************************************************************)
(* C37: a NACK byte (0x15) that arrives on its own while a call is         *)
(* pending, that is a delivery that leaves the buffer holding exactly      *)
(* that byte, has no effect on the call: the request is not sent again,    *)
(* nothing is written, no call is completed or failed, the pending set     *)
(* and the timers stay as they are, and the byte leaves the buffer.        *)
(***************************************************************************)
C37_LoneNackIgnored ==
    [][(IsData /\ responseBuffer \o last'.data = <<NACK>>
               /\ pendingResolves # << >>)
         => /\ wire' = << >>
            /\ result' = result
            /\ pendingResolves' = pendingResolves
            /\ timers' = timers
            /\ responseBuffer' = << >>]_vars

\* the terminal's NACK has just been dropped while a call is pending
C37_Witness ==
    /\ last.op = "data"
    /\ last.data = <<NACK>>
    /\ responseBuffer = << >>
    /\ wire = << >>
    /\ Unsettled # {}
    /\ pendingResolves # << >>

(***************************************************************************)
(* C38: while the coordinator is not connected (after a port error or a    *)
(* close) it writes nothing to the port: no step taken in that state       *)
(* hands bytes to port.write, and a delivery of inbound bytes, even of a   *)
(* complete valid frame, produces no ACK.                                  *)
(* The code departs from it: handleError clears isConnected and leaves     *)
(* the port and its handlers as they are, and sendAck does not look at     *)
(* isConnected.                                                            *)
(***************************************************************************)
C38_DisconnectedWritesNothing ==
    [][(~isConnected /\ ~isConnected') => wire' = << >>]_vars

====
